---- MODULE Spec2Model ----
(***************************************************************************)
(* A model of the Privacy SDK for IBM Security Verify                      *)
(* (verify-dpcm-sdk-js): the assessment status reduction of Privacy.assess *)
(* and the consent metadata normalisation of Privacy.getConsentMetadata /  *)
(* DPCMService.processConsentMetadata; the constructor of Privacy,         *)
(* Privacy.getUserConsents, the requests DPCMService sends and the         *)
(* operations of the DPCM client of dpcm.js, alone and with two calls in   *)
(* flight on one array of the caller.                                      *)
(*                                                                         *)
(* JavaScript values whose type varies are tagged records (Undefined,      *)
(* Null, Str, Bool, Num); a JavaScript object is a TLA+ record whose       *)
(* DOMAIN is the set of its own properties. Arrays and the iteration order *)
(* of an object's keys are sequences (1-based).                            *)
(***************************************************************************)
EXTENDS Integers, Sequences, FiniteSets, TLC

VARIABLES
    config,      \* the client's config: `config` / this._config
    auth,        \* the client's auth: `auth` / this._auth
    context,     \* the client's context: `context` / this._context
    calls,       \* the transport calls (get, post, patch) issued so far
    error,       \* `error` of the catch block: what the try block threw
    op,          \* the operation that was invoked
    pc,          \* position of the running operation
    items,       \* the caller's items array (getConsentMetadata mutates it);
                 \* the arguments given to getUserConsents
    request,     \* body of the outbound transport call
    assessment,  \* body received from requestApproval
    status,      \* Privacy.assess: `let status`
    i,           \* Privacy.assess: position of `for (const ia of assessment)`
    itemSet,     \* itemNameSet / itemSet
    response,    \* DSP response given to processConsentMetadata
    heap,        \* the record objects made by _buildMetadataRecord
    metadata,    \* metadata.eula / metadata.default: references into heap
    records,     \* `records`: name -> reference into heap
    p,           \* position of `for (const purposeID in response.purposes)`
    k,           \* position of `for (const consentID in response.consents)`
    result       \* what the promise of the operation settled with

vars == <<config, auth, context, calls, error, op, pc, items, request, assessment,
          status, i, itemSet, response, heap, metadata, records, p, k, result>>

clientVars == <<config, auth, context>>

assessVars == <<assessment, status, i>>
normVars == <<itemSet, response, heap, metadata, records, p, k>>

----------------------------------------------------------------------------
(* Bounds of the model *)

MaxLen == 3        \* entries of an assessment array
MaxItems == 2      \* caller items / members of the item-key set
MaxAttrs == 2      \* entries of purpose.attributes
MaxAccess == 2     \* entries of an accessTypes array
MaxConsents == 2   \* entries of response.consents
MaxInvocations == 2  \* invocations of an operation on the same array
MaxEntries == 2    \* entries of the array given to storeConsents

----------------------------------------------------------------------------
(* JavaScript values *)

Undefined == [t |-> "undefined"]
Null == [t |-> "null"]
Str(s) == [t |-> "string", s |-> s]
Bool(b) == [t |-> "boolean", b |-> b]
Num(n) == [t |-> "number", n |-> n]
Obj(o) == [t |-> "object", o |-> o]

\* obj[key] of an object
Prop(o, key) == IF key \in DOMAIN o THEN o[key] ELSE Undefined

\* `${v}` in a template literal
TemplateStr(v) ==
    CASE v.t = "string" -> v.s
      [] v.t = "undefined" -> "undefined"
      [] v.t = "null" -> "null"
      [] v.t = "boolean" -> (IF v.b THEN "true" ELSE "false")
      [] v.t = "number" -> ToString(v.n)
      [] OTHER -> "[object Object]"

\* the own properties that hasOwnProperty sees: an object's fields; for a
\* string primitive its indices and "length"
OwnKeys(v) ==
    CASE v.t = "object" -> DOMAIN v.o
      [] v.t = "string" -> {"length"} \cup {ToString(n) : n \in 0..(Len(v.s) - 1)}
      [] OTHER -> {}

\* obj[key] of any value that is not null or undefined
Member(v, key) ==
    CASE v.t = "object" -> Prop(v.o, key)
      [] v.t = "string" /\ key = "length" -> Num(Len(v.s))
      [] v.t = "string" /\ key \in OwnKeys(v) -> Str("?")  \* one character
      [] OTHER -> Undefined

----------------------------------------------------------------------------
(* lib/utils/stringUtils.js *)

has(obj, key) ==
    /\ key \in OwnKeys(obj)
    /\ Member(obj, key).t = "string"
    /\ Len(Member(obj, key).s) # 0

getOrDefault(obj, key, defaultValue) ==
    IF obj.t \notin {"null", "undefined"} /\ has(obj, key)
    THEN Member(obj, key)
    ELSE defaultValue

----------------------------------------------------------------------------
(* Privacy.assess *)

NO_CONSENT == "CSIBT0033I"
OTHER_REASON == "CSIBT0010E"

\* The entries a data-usage-approval body can hold.
Approved == [result |-> <<[approved |-> TRUE]>>]
Denied(messageId) ==
    [result |-> <<[approved |-> FALSE, reason |-> [messageId |-> messageId]]>>]
NoReason == [result |-> <<[approved |-> FALSE]>>]
NoResult == [purposeId |-> "marketing"]

Entries ==
    {Approved, Denied(NO_CONSENT), Denied(OTHER_REASON), NoReason, NoResult}

RECURSIVE SeqsUpTo(_, _)
SeqsUpTo(S, n) ==
    IF n = 0 THEN {<<>>}
    ELSE LET shorter == SeqsUpTo(S, n - 1)
         IN shorter \cup {Append(s, x) : s \in {q \in shorter : Len(q) = n - 1}, x \in S}

\* the body of a data-usage-approval response: an array of entries, or
\* something that is not an array
ArrayBody(entries) == [array |-> entries]
\* a body that is not an array: an object, a string, null, undefined
NotArrays ==
    {[other |-> Obj([messageId |-> "CSIBT0004E"])], [other |-> Str("OK")],
     [other |-> Null], [other |-> Undefined]}
IsArray(body) == "array" \in DOMAIN body

Assessments == {ArrayBody(a) : a \in SeqsUpTo(Entries, MaxLen)}

\* the error a failed transport call rejects with
TransportErrors ==
    {[response |-> [status |-> 400, data |-> [messageId |-> "CSIBT0004E"]]],
     [response |-> [status |-> 500]],
     [message |-> "ECONNREFUSED"]}

\* what a thrown TypeError looks like to the catch block
TypeError == [name |-> "TypeError", message |-> "TypeError"]

\* the envelope never carries the body of the error
CatchWithoutDetail(err) ==
    IF "response" \notin DOMAIN err
    THEN [rejected |-> TypeError]
    ELSE [status |-> "error"]

\* the catch block of the facade operations of Privacy.assess and
\* Privacy.getConsentMetadata: error.response.data is read without a guard
CatchUnguarded(err) ==
    IF "response" \notin DOMAIN err
    THEN [rejected |-> TypeError]
    ELSE IF "data" \in DOMAIN err.response
         THEN [status |-> "error", detail |-> err.response.data]
         ELSE [status |-> "error"]

\* the guarded catch block of Privacy.getUserConsents
CatchGuarded(err) ==
    IF "response" \in DOMAIN err /\ "data" \in DOMAIN err.response
    THEN [status |-> "error", detail |-> err.response.data]
    ELSE [status |-> "error"]

\* `typeof v`
TypeOf(v) ==
    CASE v.t = "null" -> "object"
      [] OTHER -> v.t

\* the body is handed back as a "denied" assessment
InvalidDatatypeAsDenied(body) ==
    [status |-> "denied", assessment |-> body]

\* what assess returns for a body that is not an array
InvalidDatatype(body) ==
    [status |-> "error",
     data |-> [messageId |-> "INVALID_DATATYPE",
               messageDescription |->
                   "'assessment' is expected to be an array. Received "
                   \o TypeOf(body.other)]]

IsApproved(ia) ==
    "result" \in DOMAIN ia /\ ia.result[1].approved

NeedsConsent(ia) ==
    "result" \in DOMAIN ia /\ ia.result[1].reason.messageId = NO_CONSENT

\* evaluating the two conditions of the loop body throws a TypeError
StepThrows(ia) ==
    /\ "result" \in DOMAIN ia
    /\ \/ Len(ia.result) = 0
       \/ /\ ~ia.result[1].approved
          /\ "reason" \notin DOMAIN ia.result[1]

\* a reduction in which a status once set is never replaced
StepStatusFirstWins(st, ia) ==
    IF st # "null" THEN st
    ELSE IF IsApproved(ia) THEN "approved"
    ELSE IF NeedsConsent(ia) THEN "consent" ELSE st

\* a reduction in which an approved entry always sets "approved"
StepStatusLastWins(st, ia) ==
    IF IsApproved(ia) THEN "approved"
    ELSE IF NeedsConsent(ia) THEN "consent" ELSE st

\* one pass of the loop body over entry ia
StepStatus(st, ia) ==
    IF IsApproved(ia)
    THEN (IF st = "null" THEN "approved" ELSE st)
    ELSE IF NeedsConsent(ia) THEN "consent" ELSE st

----------------------------------------------------------------------------
(* What the server is configured with: the data-subject-presentation body *)

PurposeIds == {"marketing"}
Categories == {"default", "eula"}
AttrIds == {"11", "3"}
AccessIds == {"default", "read"}

\* response.attributes and response.accessTypes: id -> descriptor
AttributeDescriptors ==
    [a \in AttrIds |-> [name |-> IF a = "11" THEN "mobile_number" ELSE "email"]]
AccessTypeDescriptors ==
    [t \in AccessIds |-> [name |-> IF t = "default" THEN "Default" ELSE "Read"]]

\* an entry of an accessTypes array
AccessTypeEntry(t) == [id |-> t, legalCategory |-> Num(4)]
AccessLists == SeqsUpTo({AccessTypeEntry(t) : t \in AccessIds}, MaxAccess)

\* the accessTypes array of a purpose without attributes: its entries may
\* leave out legalCategory and may carry assentUIDefault
PurposeAccessLists ==
    SeqsUpTo({AccessTypeEntry(t) : t \in AccessIds}
             \cup {[id |-> "default"],
                   [id |-> "default", legalCategory |-> Num(2),
                    assentUIDefault |-> Bool(TRUE)]}, MaxAccess)

\* purpose.attributes: every attribute of a purpose lists the purpose's
\* access types
AttributeLists ==
    {[j \in 1..Len(ids) |-> [id |-> ids[j], accessTypes |-> acc]] :
        ids \in SeqsUpTo(AttrIds, MaxAttrs), acc \in AccessLists}

PurposeBase(purposeID, category) ==
    [id |-> purposeID,
     name |-> "Marketing",
     category |-> category,
     defaultConsentDuration |-> 90]

\* a purpose with an attributes array, or with access types of its own
Purposes(purposeID) ==
    {("attributes" :> attrs) @@ PurposeBase(purposeID, category) :
        attrs \in AttributeLists, category \in Categories}
    \cup
    {("accessTypes" :> acc) @@ PurposeBase(purposeID, category) :
        acc \in PurposeAccessLists, category \in Categories}

\* response.purposes in the order `for (... in ...)` visits its keys
PurposeMaps ==
    {<<>>} \cup
    UNION {{<<[key |-> purposeID, value |-> purpose]>> :
                purpose \in Purposes(purposeID)} : purposeID \in PurposeIds}

\* a consent record of response.consents
ConsentRecords ==
    {[purposeId |-> Str("marketing"), attributeId |-> Str("11"),
      accessTypeId |-> Str("default"), status |-> Num(1), state |-> Num(3)],
     [purposeId |-> Str("marketing"), attributeId |-> Str("11"),
      accessTypeId |-> Str("default"), status |-> Num(2), state |-> Num(4)],
     [purposeId |-> Str("marketing"), attributeId |-> Str("11"),
      status |-> Num(1), state |-> Num(1)],
     [purposeId |-> Str("marketing"), accessTypeId |-> Str("default"),
      status |-> Num(8), state |-> Num(1)]}

\* response.consents in the order `for (... in ...)` visits its keys: each
\* consent record is held under one consent id
ConsentMaps ==
    {cm \in SeqsUpTo(ConsentRecords, MaxConsents) :
        \A m, n \in 1..Len(cm) : cm[m] = cm[n] => m = n}

Responses ==
    {[purposes |-> pm, attributes |-> AttributeDescriptors,
      accessTypes |-> AccessTypeDescriptors, consents |-> cm] :
        pm \in PurposeMaps, cm \in ConsentMaps}

----------------------------------------------------------------------------
(* DPCMService.processConsentMetadata *)

\* truthiness of a JavaScript value
Truthy(v) ==
    CASE v.t = "string" -> Len(v.s) # 0
      [] v.t = "boolean" -> v.b
      [] v.t = "number" -> v.n # 0
      [] v.t = "object" -> TRUE
      [] OTHER -> FALSE

\* v == 1
LooseEqualsOne(v) ==
    CASE v.t = "number" -> v.n = 1
      [] v.t = "string" -> v.s = "1"
      [] v.t = "boolean" -> v.b
      [] OTHER -> FALSE

\* `${purposeID}/${attributeID}.${accessTypeID}`
KeyName(purposeID, attributeID, accessTypeID) ==
    purposeID \o "/" \o attributeID \o "." \o accessTypeID

\* DPCMService._buildMetadataRecord
BuildMetadataRecord(resp, purpose, attributeID, accessTypeID, assentUIDefault, legalCategory) ==
    [purposeId |-> purpose.id,
     attributeId |-> attributeID,
     accessTypeId |-> accessTypeID,
     purposeName |-> purpose.name,
     attributeName |-> IF attributeID.t \notin {"null", "undefined"}
                       THEN Str(resp.attributes[attributeID.s].name)
                       ELSE Null,
     accessType |-> resp.accessTypes[accessTypeID].name,
     defaultConsentDuration |-> purpose.defaultConsentDuration,
     assentUIDefault |-> assentUIDefault,
     consentType |-> legalCategory,
     termsOfUseRef |-> IF "termsOfUse" \in DOMAIN purpose
                          /\ Truthy(Prop(purpose.termsOfUse, "ref"))
                       THEN purpose.termsOfUse.ref
                       ELSE Null,
     status |-> "NONE"]

\* the three objects the method builds: the records made so far (heap), the
\* `records` map and the two lists of `metadata`
EmptyNorm == [heap |-> <<>>, records |-> [n \in {} |-> 0],
              metadata |-> [eula |-> <<>>, default |-> <<>>]]

\* the record is pushed but never entered in `records`
RegisterNotMapped(ns, name, record, category) ==
    LET ref == Len(ns.heap) + 1
    IN [heap |-> Append(ns.heap, record),
        records |-> ns.records,
        metadata |-> IF category = "eula"
                     THEN [ns.metadata EXCEPT !.eula = Append(@, ref)]
                     ELSE [ns.metadata EXCEPT !.default = Append(@, ref)]]

\* every record is pushed into metadata.default, whatever the category
RegisterAllDefault(ns, name, record, category) ==
    LET ref == Len(ns.heap) + 1
    IN [heap |-> Append(ns.heap, record),
        records |-> (name :> ref) @@ ns.records,
        metadata |-> [ns.metadata EXCEPT !.default = Append(@, ref)]]

\* `records[name] = record` and the push into metadata.eula / metadata.default
Register(ns, name, record, category) ==
    LET ref == Len(ns.heap) + 1
    IN [heap |-> Append(ns.heap, record),
        records |-> (name :> ref) @@ ns.records,
        metadata |-> IF category = "eula"
                     THEN [ns.metadata EXCEPT !.eula = Append(@, ref)]
                     ELSE [ns.metadata EXCEPT !.default = Append(@, ref)]]

\* the alias test inverted: a combination is kept when its alias is NOT in
\* the item set
AttributeAccessTypeAliasInverted(ns, iset, resp, purposeID, purpose, attribute, accessType) ==
    LET attributeID == attribute.id
        name == KeyName(purposeID, attributeID, accessType.id)
        attrName == resp.attributes[attributeID].name
        alias == KeyName(purposeID, attrName, accessType.id)
    IN IF name \notin iset /\ alias \in iset
       THEN ns
       ELSE Register(ns, name,
                     BuildMetadataRecord(resp, purpose, Str(attributeID),
                         accessType.id, Prop(accessType, "assentUIDefault"),
                         Prop(accessType, "legalCategory")),
                     purpose.category)

\* the body of `for (const accessType of attribute.accessTypes)`
AttributeAccessType(ns, iset, resp, purposeID, purpose, attribute, accessType) ==
    LET attributeID == attribute.id
        name == KeyName(purposeID, attributeID, accessType.id)
        attrName == resp.attributes[attributeID].name
        alias == KeyName(purposeID, attrName, accessType.id)
    IN IF name \notin iset /\ alias \notin iset
       THEN ns
       ELSE Register(ns, name,
                     BuildMetadataRecord(resp, purpose, Str(attributeID),
                         accessType.id, Prop(accessType, "assentUIDefault"),
                         Prop(accessType, "legalCategory")),
                     purpose.category)

\* the access type's assentUIDefault and legalCategory are passed on as they
\* are, without the defaults false and 4
PurposeAccessTypeNoDefaults(ns, iset, resp, purposeID, purpose, accessType) ==
    LET name == purposeID \o "/." \o accessType.id
    IN IF name \notin iset
       THEN ns
       ELSE Register(ns, name,
                     BuildMetadataRecord(resp, purpose, Null, accessType.id,
                         Prop(accessType, "assentUIDefault"),
                         Prop(accessType, "legalCategory")),
                     purpose.category)

\* the body of `for (const accessType of purpose.accessTypes)`
PurposeAccessType(ns, iset, resp, purposeID, purpose, accessType) ==
    LET name == purposeID \o "/." \o accessType.id
    IN IF name \notin iset
       THEN ns
       ELSE Register(ns, name,
                     BuildMetadataRecord(resp, purpose, Null, accessType.id,
                         IF Truthy(Prop(accessType, "assentUIDefault"))
                         THEN accessType.assentUIDefault ELSE Bool(FALSE),
                         IF Truthy(Prop(accessType, "legalCategory"))
                         THEN accessType.legalCategory ELSE Num(4)),
                     purpose.category)

RECURSIVE AttributeAccessTypes(_, _, _, _, _, _, _)
AttributeAccessTypes(ns, iset, resp, purposeID, purpose, attribute, t) ==
    IF t > Len(attribute.accessTypes) THEN ns
    ELSE AttributeAccessTypes(
             AttributeAccessType(ns, iset, resp, purposeID, purpose, attribute,
                                 attribute.accessTypes[t]),
             iset, resp, purposeID, purpose, attribute, t + 1)

RECURSIVE PurposeAttributes(_, _, _, _, _, _)
PurposeAttributes(ns, iset, resp, purposeID, purpose, a) ==
    IF a > Len(purpose.attributes) THEN ns
    ELSE PurposeAttributes(
             AttributeAccessTypes(ns, iset, resp, purposeID, purpose,
                                  purpose.attributes[a], 1),
             iset, resp, purposeID, purpose, a + 1)

RECURSIVE PurposeAccessTypes(_, _, _, _, _, _)
PurposeAccessTypes(ns, iset, resp, purposeID, purpose, t) ==
    IF t > Len(purpose.accessTypes) THEN ns
    ELSE PurposeAccessTypes(
             PurposeAccessType(ns, iset, resp, purposeID, purpose,
                               purpose.accessTypes[t]),
             iset, resp, purposeID, purpose, t + 1)

\* the body of `for (const purposeID in response.purposes)`
PurposeBody(ns, iset, resp, purposeID, purpose) ==
    IF Len(purposeID) = 0 THEN ns
    ELSE IF "attributes" \in DOMAIN purpose
         THEN PurposeAttributes(ns, iset, resp, purposeID, purpose, 1)
         ELSE PurposeAccessTypes(ns, iset, resp, purposeID, purpose, 1)

\* a missing accessTypeId read as "default", as the first pass does for items
ConsentNameDefaulted(consent) ==
    LET attrId == getOrDefault(Obj(consent), "attributeId", Str(""))
        accessTypeId == getOrDefault(Obj(consent), "accessTypeId", Str("default"))
    IN KeyName(TemplateStr(Prop(consent, "purposeId")), TemplateStr(attrId),
               TemplateStr(accessTypeId))

\* the name under which the reconciliation pass looks a consent up
ConsentName(consent) ==
    LET attrId == getOrDefault(Obj(consent), "attributeId", Str(""))
        accessTypeId == getOrDefault(Obj(consent), "accessTypeId", Str(""))
    IN KeyName(TemplateStr(Prop(consent, "purposeId")), TemplateStr(attrId),
               TemplateStr(accessTypeId))

\* the status read from consent.state instead of consent.status
ConsentStatusFromState(consent) ==
    IF LooseEqualsOne(Prop(consent, "state")) THEN "ACTIVE" ELSE "EXPIRED"

\* record.status for a consent
ConsentStatus(consent) ==
    IF LooseEqualsOne(Prop(consent, "status")) THEN "ACTIVE" ELSE "EXPIRED"

\* the three assignments to the record a consent belongs to
Reconciled(record, consent) ==
    ("consent" :> consent) @@
    [record EXCEPT !.status = ConsentStatus(consent),
                   !.consentType = Prop(consent, "state")]

\* the body of `for (const consentID in response.consents)`
ConsentBody(ns, consent) ==
    LET name == ConsentName(consent)
    IN IF name \notin DOMAIN ns.records
       THEN ns
       ELSE [ns EXCEPT !.heap[ns.records[name]] = Reconciled(@, consent)]

\* `metadata` as the caller sees it: the lists hold the record objects
Returned(ns) ==
    [eula |-> [j \in 1..Len(ns.metadata.eula) |-> ns.heap[ns.metadata.eula[j]]],
     default |->
        [j \in 1..Len(ns.metadata.default) |-> ns.heap[ns.metadata.default[j]]]]

----------------------------------------------------------------------------
(* The client: config, auth and context; the requests of DPCMService *)

\* a config and an auth that pass the constructor, and the default context
TenantConfig == Obj([tenantUrl |-> Str("https://abc.verify.ibm.com")])
TokenAuth == Obj([accessToken |-> Str("token")])
NoContext == <<>>

\* the values a caller puts in a context
SubjectIds == {Null, Str(""), Str("u1")}
ExternalSubjects == {Bool(FALSE), Bool(TRUE)}
IpAddresses == {Null, Str(""), Str("1.2.3.4")}

\* an object with the property `name` absent or set to one of `values`
Optional(name, values) == {<<>>} \cup {name :> v : v \in values}

Contexts ==
    {s @@ e @@ a : s \in Optional("subjectId", SubjectIds),
                   e \in Optional("isExternalSubject", ExternalSubjects),
                   a \in Optional("ipAddress", IpAddresses)}

\* `v && v != null`
Present(v) == Truthy(v) /\ v.t \notin {"null", "undefined"}

\* the fields are set to null when the context has no value for them
AugmentNullPlaceholders(ctx, entry) ==
    ("subjectId" :> Prop(ctx, "subjectId")) @@
    ("isExternalSubject" :> Prop(ctx, "isExternalSubject")) @@
    ("geoIP" :> Prop(ctx, "ipAddress")) @@ entry

\* the three `if (this._context.x && this._context.x != null)` assignments
\* to subjectId, isExternalSubject and geoIP of a request or consent
Augment(ctx, entry) ==
    LET subject == IF Present(Prop(ctx, "subjectId"))
                   THEN ("subjectId" :> ctx.subjectId) @@ entry ELSE entry
        external == IF Present(Prop(ctx, "isExternalSubject"))
                    THEN ("isExternalSubject" :> ctx.isExternalSubject) @@ subject
                    ELSE subject
    IN IF Present(Prop(ctx, "ipAddress"))
       THEN ("geoIP" :> ctx.ipAddress) @@ external ELSE external

\* the call is issued a second time
SendTwice(sent, call) == Append(Append(sent, call), call)

\* Service.get / Service.post / Service.patch: one call goes out on the
\* transport; `sent` are the calls issued before it
Send(sent, call) == Append(sent, call)

\* DPCMService.requestApproval: the call it makes on the transport
requestApproval(ctx, duaRequest) ==
    [method |-> "post",
     path |-> "/v1.0/privacy/data-usage-approval",
     body |-> Augment(ctx, [items |-> duaRequest])]

\* DPCMService.getConsentMetadata: the call it makes on the transport
getConsentMetadata(ctx, purposes) ==
    [method |-> "post",
     path |-> "/v1.0/privacy/data-subject-presentation",
     body |-> Augment(ctx, [purposeId |-> purposes])]

\* DPCMService.storeConsents: what forEach leaves in the caller's entries
AugmentedConsents(ctx, consents) ==
    [j \in 1..Len(consents) |-> Augment(ctx, consents[j])]

\* DPCMService.storeConsents: the call it makes on the transport
storeConsents(ctx, consents) ==
    [method |-> "patch",
     path |-> "/v1.0/privacy/consents",
     body |-> [j \in 1..Len(consents) |->
                  [op |-> Str("add"),
                   value |-> Obj(AugmentedConsents(ctx, consents)[j])]]]

\* encodeURIComponent of one character
EncodeChar(c) ==
    CASE c = "=" -> "%3D"
      [] c = "\"" -> "%22"
      [] c = " " -> "%20"
      [] c = "@" -> "%40"
      [] OTHER -> c

RECURSIVE encodeURIComponent(_)
encodeURIComponent(s) ==
    IF s = "" THEN "" ELSE EncodeChar(Head(s)) \o encodeURIComponent(Tail(s))

\* a getUserConsents that appends the filter without escaping it
getUserConsentsUnescaped(ctx) ==
    [method |-> "get",
     path |-> IF Truthy(Prop(ctx, "subjectId")) /\ ctx.subjectId # Str("")
              THEN "/config/v1.0/privacy/consents" \o "?search=" \o
                   "subjectId=\"" \o TemplateStr(ctx.subjectId) \o "\""
              ELSE "/config/v1.0/privacy/consents"]

\* DPCMService.getUserConsents: the call it makes on the transport
getUserConsents(ctx) ==
    [method |-> "get",
     path |-> IF Truthy(Prop(ctx, "subjectId")) /\ ctx.subjectId # Str("")
              THEN "/config/v1.0/privacy/consents" \o "?search=" \o
                   encodeURIComponent("subjectId=\"" \o
                                      TemplateStr(ctx.subjectId) \o "\"")
              ELSE "/config/v1.0/privacy/consents"]

----------------------------------------------------------------------------
(* Values before an operation has produced them *)

Pending == [pending |-> TRUE]
NoError == [none |-> TRUE]
NoRequest == [none |-> TRUE]
NoBody == [none |-> TRUE]
NoResponse == [purposes |-> <<>>, consents |-> <<>>]
NoMetadata == EmptyNorm.metadata
NoRecords == EmptyNorm.records

\* the items handed to Privacy.assess
AssessItems ==
    {<<>>,
     <<[purposeId |-> Str("marketing"), attributeId |-> Str("11"),
        accessTypeId |-> Str("default")],
       [purposeId |-> Str("defaultEULA")]>>}

\* Privacy.assess up to the await: DPCMService.requestApproval posts the items
AssessCall ==
    /\ pc = "assess"
    /\ request' = requestApproval(context, items)
    /\ calls' = Send(calls, request')
    /\ pc' = "awaitApproval"
    /\ UNCHANGED <<clientVars, error, op, items, assessVars, normVars,
                   result>>

\* the transport call resolves with an array: the loop starts
ApprovalArray ==
    /\ pc = "awaitApproval"
    /\ \E body \in Assessments :
        /\ assessment' = body
        /\ status' = "null"
        /\ i' = 1
        /\ pc' = "assessLoop"
    /\ UNCHANGED <<clientVars, error, calls, op, items, request, normVars,
                   result>>

\* the transport call resolves with a body that is not an array
ApprovalNotArray ==
    /\ pc = "awaitApproval"
    /\ \E body \in NotArrays :
        /\ assessment' = body
        /\ result' = InvalidDatatype(body)
    /\ pc' = "resolved"
    /\ UNCHANGED <<clientVars, error, calls, op, items, request, status, i,
                   normVars>>

\* the transport call rejects: the catch block builds the envelope
ApprovalFails ==
    /\ pc = "awaitApproval"
    /\ error' \in TransportErrors
    /\ result' = CatchUnguarded(error')
    /\ pc' = IF "rejected" \in DOMAIN result' THEN "rejected" ELSE "resolved"
    /\ UNCHANGED <<clientVars, calls, op, items, request, assessVars,
                   normVars>>

\* one iteration of `for (const ia of assessment)`
AssessStep ==
    /\ pc = "assessLoop"
    /\ i <= Len(assessment.array)
    /\ IF StepThrows(assessment.array[i])
       THEN /\ error' = TypeError
            /\ result' = CatchUnguarded(error')
            /\ pc' = "rejected"
            /\ UNCHANGED <<status, i>>
       ELSE /\ status' = StepStatus(status, assessment.array[i])
            /\ i' = i + 1
            /\ UNCHANGED <<error, pc, result>>
    /\ UNCHANGED <<clientVars, calls, op, items, request, assessment,
                   normVars>>

\* after the loop: `if (status == null) status = "denied"` and the return
AssessReturn ==
    /\ pc = "assessLoop"
    /\ i > Len(assessment.array)
    /\ status' = IF status = "null" THEN "denied" ELSE status
    /\ result' = [status |-> status', assessment |-> assessment.array]
    /\ pc' = "resolved"
    /\ UNCHANGED <<clientVars, error, calls, op, items, request, assessment,
                   i, normVars>>

InitAssess ==
    /\ config = TenantConfig
    /\ auth = TokenAuth
    /\ context = NoContext
    /\ calls = <<>>
    /\ error = NoError
    /\ op = "assess"
    /\ pc = "assess"
    /\ items \in AssessItems
    /\ request = NoRequest
    /\ assessment = NoBody
    /\ status = "null"
    /\ i = 1
    /\ itemSet = {}
    /\ response = NoResponse
    /\ heap = <<>>
    /\ metadata = NoMetadata
    /\ records = NoRecords
    /\ p = 1
    /\ k = 1
    /\ result = Pending

NextAssess ==
    \/ AssessCall
    \/ ApprovalArray
    \/ ApprovalNotArray
    \/ ApprovalFails
    \/ AssessStep
    \/ AssessReturn

SpecAssess == InitAssess /\ [][NextAssess]_vars

----------------------------------------------------------------------------
(* DPCMService.processConsentMetadata(itemSet, response), step by step *)

\* the item-key sets the method is called with
ItemKeys ==
    {"marketing/11.default", "marketing/mobile_number.default",
     "marketing/3.read", "marketing/.default"}
ItemSets == {s \in SUBSET ItemKeys : Cardinality(s) <= MaxItems}

\* the objects under construction
Norm == [heap |-> heap, records |-> records, metadata |-> metadata]

SetNorm(ns) ==
    /\ heap' = ns.heap
    /\ records' = ns.records
    /\ metadata' = ns.metadata

\* one iteration of `for (const purposeID in response.purposes)`
ProcessPurpose ==
    /\ pc = "purposes"
    /\ p <= Len(response.purposes)
    /\ SetNorm(PurposeBody(Norm, itemSet, response, response.purposes[p].key,
                           response.purposes[p].value))
    /\ p' = p + 1
    /\ UNCHANGED <<clientVars, error, calls, op, pc, items, request,
                   assessVars, itemSet, response, k, result>>

\* one iteration of `for (const consentID in response.consents)`
ProcessConsent ==
    /\ pc = "purposes"
    /\ p > Len(response.purposes)
    /\ k <= Len(response.consents)
    /\ SetNorm(ConsentBody(Norm, response.consents[k]))
    /\ k' = k + 1
    /\ UNCHANGED <<clientVars, error, calls, op, pc, items, request,
                   assessVars, itemSet, response, p, result>>

\* `return metadata` to a direct caller of the method
NormReturn ==
    /\ op = "processConsentMetadata"
    /\ pc = "purposes"
    /\ p > Len(response.purposes)
    /\ k > Len(response.consents)
    /\ result' = Returned(Norm)
    /\ pc' = "resolved"
    /\ UNCHANGED <<clientVars, error, calls, op, items, request, assessVars,
                   normVars>>

InitNorm ==
    /\ config = TenantConfig
    /\ auth = TokenAuth
    /\ context = NoContext
    /\ calls = <<>>
    /\ error = NoError
    /\ op = "processConsentMetadata"
    /\ pc = "purposes"
    /\ items = <<>>
    /\ request = NoRequest
    /\ assessment = NoBody
    /\ status = "null"
    /\ i = 1
    /\ itemSet \in ItemSets
    /\ response \in Responses
    /\ heap = <<>>
    /\ metadata = NoMetadata
    /\ records = NoRecords
    /\ p = 1
    /\ k = 1
    /\ result = Pending

NextNorm ==
    \/ ProcessPurpose
    \/ ProcessConsent
    \/ NormReturn

SpecNorm == InitNorm /\ [][NextNorm]_vars

----------------------------------------------------------------------------
(* Privacy.getConsentMetadata(items) *)

\* the items a caller passes
RequestItems ==
    {[purposeId |-> Str("marketing"), attributeId |-> Str("11"),
      accessTypeId |-> Str("default")],
     [purposeId |-> Str("marketing"), attributeId |-> Str("11")],
     [purposeId |-> Str("marketing"), attributeId |-> Str("mobile_number"),
      accessTypeId |-> Str("")],
     [purposeId |-> Str("defaultEULA")]}

ItemLists == SeqsUpTo(RequestItems, MaxItems)

\* `if (!item['accessTypeId'] || item['accessTypeId'] == null)
\*      item.accessTypeId = "default"`
DefaultAccessType(item) ==
    IF \/ ~Truthy(Prop(item, "accessTypeId"))
       \/ Prop(item, "accessTypeId").t \in {"null", "undefined"}
    THEN ("accessTypeId" :> Str("default")) @@ item
    ELSE item

\* the string added to itemNameSet for an item: getOrDefault is called with
\* the id as `obj`, "" as `key` and no `defaultValue`
ItemName(item) ==
    KeyName(TemplateStr(Prop(item, "purposeId")),
            TemplateStr(getOrDefault(Prop(item, "attributeId"), "", Undefined)),
            TemplateStr(getOrDefault(Prop(item, "accessTypeId"), "", Undefined)))

\* only the items that still lack an accessTypeId contribute their purpose
RECURSIVE PurposeArrayOfUndefaulted(_)
PurposeArrayOfUndefaulted(its) ==
    IF its = <<>> THEN <<>>
    ELSE LET front == PurposeArrayOfUndefaulted(SubSeq(its, 1, Len(its) - 1))
             last == Prop(its[Len(its)], "purposeId")
         IN IF \/ \E j \in 1..Len(front) : front[j] = last
               \/ Truthy(Prop(its[Len(its)], "accessTypeId"))
            THEN front ELSE Append(front, last)

\* Array.from(purposes): the purposeIds in the order of their first adding
RECURSIVE PurposeArray(_)
PurposeArray(its) ==
    IF its = <<>> THEN <<>>
    ELSE LET front == PurposeArray(SubSeq(its, 1, Len(its) - 1))
             last == Prop(its[Len(its)], "purposeId")
         IN IF \E j \in 1..Len(front) : front[j] = last
            THEN front ELSE Append(front, last)

\* the responses the data-subject-presentation call resolves with
PresentationBodies ==
    {r \in Responses : Len(r.consents) <= 1}

\* the method up to the await: the loop over the items and the post of
\* DPCMService.getConsentMetadata
MetadataCall ==
    /\ pc = "getConsentMetadata"
    /\ items' = [j \in 1..Len(items) |-> DefaultAccessType(items[j])]
    /\ itemSet' = {ItemName(items'[j]) : j \in 1..Len(items)}
    /\ request' = getConsentMetadata(context, PurposeArray(items))
    /\ calls' = Send(calls, request')
    /\ pc' = "awaitMetadata"
    /\ UNCHANGED <<clientVars, error, op, assessVars, response, heap,
                   metadata, records, p, k, result>>

\* the transport call resolves: processConsentMetadata starts
MetadataArrives ==
    /\ pc = "awaitMetadata"
    /\ response' \in PresentationBodies
    /\ heap' = EmptyNorm.heap
    /\ records' = EmptyNorm.records
    /\ metadata' = EmptyNorm.metadata
    /\ p' = 1
    /\ k' = 1
    /\ pc' = "purposes"
    /\ UNCHANGED <<clientVars, error, calls, op, items, request, assessVars,
                   itemSet, result>>

\* the transport call rejects: the catch block builds the envelope
MetadataFails ==
    /\ pc = "awaitMetadata"
    /\ error' \in TransportErrors
    /\ result' = CatchUnguarded(error')
    /\ pc' = IF "rejected" \in DOMAIN result' THEN "rejected" ELSE "resolved"
    /\ UNCHANGED <<clientVars, calls, op, items, request, assessVars,
                   normVars>>

\* `return { status: 'done', metadata }`
MetadataReturn ==
    /\ op = "getConsentMetadata"
    /\ pc = "purposes"
    /\ p > Len(response.purposes)
    /\ k > Len(response.consents)
    /\ result' = [status |-> "done", metadata |-> Returned(Norm)]
    /\ pc' = "resolved"
    /\ UNCHANGED <<clientVars, error, calls, op, items, request, assessVars,
                   normVars>>

InitMeta ==
    /\ config = TenantConfig
    /\ auth = TokenAuth
    /\ context = NoContext
    /\ calls = <<>>
    /\ error = NoError
    /\ op = "getConsentMetadata"
    /\ pc = "getConsentMetadata"
    /\ items \in ItemLists
    /\ request = NoRequest
    /\ assessment = NoBody
    /\ status = "null"
    /\ i = 1
    /\ itemSet = {}
    /\ response = NoResponse
    /\ heap = <<>>
    /\ metadata = NoMetadata
    /\ records = NoRecords
    /\ p = 1
    /\ k = 1
    /\ result = Pending

NextMeta ==
    \/ MetadataCall
    \/ MetadataArrives
    \/ MetadataFails
    \/ ProcessPurpose
    \/ ProcessConsent
    \/ MetadataReturn

SpecMeta == InitMeta /\ [][NextMeta]_vars

----------------------------------------------------------------------------
(* Privacy.getConsentMetadata(items), called again with the same array *)

\* the promise has settled and the caller invokes the method again with the
\* array it passed before; the locals of the finished invocation are gone
\* (itemSet and request keep their values until the loop and the post of
\* the new invocation replace them)
MetadataAgain ==
    /\ op = "getConsentMetadata"
    /\ pc \in {"resolved", "rejected"}
    /\ Len(calls) < MaxInvocations
    /\ pc' = "getConsentMetadata"
    /\ error' = NoError
    /\ result' = Pending
    /\ response' = NoResponse
    /\ heap' = EmptyNorm.heap
    /\ records' = EmptyNorm.records
    /\ metadata' = EmptyNorm.metadata
    /\ p' = 1
    /\ k' = 1
    /\ UNCHANGED <<clientVars, calls, op, items, request, assessVars, itemSet>>

NextTwice ==
    \/ NextMeta
    \/ MetadataAgain

SpecTwice == InitMeta /\ [][NextTwice]_vars

----------------------------------------------------------------------------
(* Privacy.getUserConsents() *)

\* the bodies the consents call resolves with: an object with or without
\* `consents`, or no body at all
\* consents of a user: one given within an application, one global
UserConsents ==
    {[purposeId |-> Str("marketing"), attributeId |-> Str("3"),
      accessTypeId |-> Str("default"), isGlobal |-> Bool(FALSE),
      applicationId |-> Str("1045301010528768009"), status |-> Num(1),
      state |-> Num(1)],
     [purposeId |-> Str("marketing"), attributeId |-> Str("11"),
      accessTypeId |-> Str("default"), isGlobal |-> Bool(TRUE),
      status |-> Num(1), state |-> Num(3)]}

ConsentsBodies ==
    {Obj([consents |-> cm]) : cm \in {c \in ConsentMaps : Len(c) <= 1}}
    \cup {Obj([consents |-> cs]) :
             cs \in SeqsUpTo(UserConsents, MaxConsents) \ {<<>>}}
    \cup {Obj([total |-> Num(0)]), Null}

\* the arguments of a call of Privacy.getUserConsents: none, or the filter
\* of the test 'get user consents for the current application'
ConsentsArguments == {<<>>, <<[filterByCurrentApplication |-> Bool(TRUE)]>>}

\* the method up to the await: the get of DPCMService.getUserConsents
ConsentsCall ==
    /\ pc = "getUserConsents"
    /\ request' = getUserConsents(context)
    /\ calls' = Send(calls, request')
    /\ pc' = "awaitConsents"
    /\ UNCHANGED <<clientVars, error, op, items, assessVars, normVars,
                   result>>

\* the transport call resolves: `return {status: 'done', consents:
\* resp.consents}`; reading `consents` of a missing body throws a TypeError,
\* which the catch block receives
ConsentsArrive ==
    /\ pc = "awaitConsents"
    /\ \E body \in ConsentsBodies :
        /\ response' = body
        /\ error' = IF body.t = "object" THEN error ELSE TypeError
        /\ result' = IF body.t = "object"
                      THEN [status |-> "done",
                            consents |-> Prop(body.o, "consents")]
                      ELSE CatchGuarded(error')
    /\ pc' = "resolved"
    /\ UNCHANGED <<clientVars, calls, op, items, request, assessVars, itemSet,
                   heap, metadata, records, p, k>>

\* the transport call rejects: the catch block builds the envelope
ConsentsFail ==
    /\ pc = "awaitConsents"
    /\ error' \in TransportErrors
    /\ result' = CatchGuarded(error')
    /\ pc' = "resolved"
    /\ UNCHANGED <<clientVars, calls, op, items, request, assessVars,
                   normVars>>

InitConsents ==
    /\ config = TenantConfig
    /\ auth = TokenAuth
    /\ context \in Contexts
    /\ calls = <<>>
    /\ error = NoError
    /\ op = "getUserConsents"
    /\ pc = "getUserConsents"
    /\ items \in ConsentsArguments
    /\ request = NoRequest
    /\ assessment = NoBody
    /\ status = "null"
    /\ i = 1
    /\ itemSet = {}
    /\ response = NoResponse
    /\ heap = <<>>
    /\ metadata = NoMetadata
    /\ records = NoRecords
    /\ p = 1
    /\ k = 1
    /\ result = Pending

NextConsents ==
    \/ ConsentsCall
    \/ ConsentsArrive
    \/ ConsentsFail

SpecConsents == InitConsents /\ [][NextConsents]_vars

----------------------------------------------------------------------------
(* new Privacy(config, auth, context) *)

\* what a caller passes as config and as auth
Configs ==
    {Undefined, Obj(<<>>), Obj([tenantUrl |-> Str("")]),
     Obj([tenantUrl |-> Num(5)]), Obj([tenantUrl |-> Null]), TenantConfig}
Auths ==
    {Undefined, Obj(<<>>), Obj([accessToken |-> Str("")]),
     Obj([accessToken |-> Bool(TRUE)]), TokenAuth}

\* what a caller passes as context: nothing, or an object
ContextArguments ==
    {Undefined, NoContext,
     [subjectId |-> Str("u1"), isExternalSubject |-> Bool(FALSE),
      ipAddress |-> Str("1.2.3.4")]}

\* lib/errors/configurationError
ConfigurationError(message) ==
    [name |-> "ConfigurationError", message |-> message]

\* `obj.hasOwnProperty` of null or undefined throws a TypeError
HasThrows(obj) == obj.t \in {"null", "undefined"}

\* the two checks of the constructor: the error it throws, or NoError
Constructor(cfg, au) ==
    IF HasThrows(cfg) THEN TypeError
    ELSE IF ~has(cfg, "tenantUrl")
    THEN ConfigurationError(
             "Cannot find property 'tenantUrl' in configuration settings.")
    ELSE IF HasThrows(au) THEN TypeError
    ELSE IF ~has(au, "accessToken")
    THEN ConfigurationError("Cannot find property 'accessToken' in auth")
    ELSE NoError

\* `new Privacy(config, auth, context)`; on the client it returns, the
\* caller goes on to invoke the operation
Construct ==
    /\ pc = "new"
    /\ IF Constructor(config, auth) = NoError
       THEN /\ context' = IF context = Undefined THEN NoContext ELSE context
            /\ pc' = op
            /\ UNCHANGED result
       ELSE /\ result' = [thrown |-> Constructor(config, auth)]
            /\ pc' = "thrown"
            /\ UNCHANGED context
    /\ UNCHANGED <<config, auth, calls, error, op, items, request, assessVars,
                   normVars>>

InitConstruct ==
    /\ config \in Configs
    /\ auth \in Auths
    /\ context \in ContextArguments
    /\ calls = <<>>
    /\ error = NoError
    /\ op = "getUserConsents"
    /\ pc = "new"
    /\ items = <<>>
    /\ request = NoRequest
    /\ assessment = NoBody
    /\ status = "null"
    /\ i = 1
    /\ itemSet = {}
    /\ response = NoResponse
    /\ heap = <<>>
    /\ metadata = NoMetadata
    /\ records = NoRecords
    /\ p = 1
    /\ k = 1
    /\ result = Pending

NextConstruct ==
    \/ Construct
    \/ NextConsents

SpecConstruct == InitConstruct /\ [][NextConstruct]_vars

----------------------------------------------------------------------------
(* The operations of a DPCM client (dpcm.js): each hands its argument to  *)
(* the method of DPCMService and wraps what comes back                     *)

DPCMOps ==
    {"DPCM.requestApproval", "DPCM.getConsentMetadata", "DPCM.storeConsents",
     "DPCM.getUserConsents"}

\* the purposes given to DPCM.getConsentMetadata
PurposeLists ==
    {<<>>, <<Str("marketing")>>, <<Str("marketing"), Str("defaultEULA")>>}

\* the entries given to DPCM.storeConsents: a consent, a consent that
\* already names a subject, and the operations of the jsdoc and of the test
\* 'store bad consents' (an 'add' and a 'replace' of /{consentId}/endTime)
ConsentEntries ==
    {[purposeId |-> Str("marketing"), attributeId |-> Str("11"),
      accessTypeId |-> Str("default"), state |-> Num(1)],
     [purposeId |-> Str("defaultEULA"), state |-> Num(2),
      subjectId |-> Str("u0")],
     [op |-> Str("add"), path |-> Null,
      value |-> Obj([purposeId |-> Str("marketing"),
                     attributeId |-> Str("1"),
                     accessTypeId |-> Str("default"), state |-> Num(1)])],
     [op |-> Str("replace"), path |-> Str("/c1/endTime"),
      value |-> Num(1700000000)]}

EntryLists == SeqsUpTo(ConsentEntries, MaxEntries)

\* the bodies a transport call resolves with: none, a completed assessment,
\* a partial failure
TransportBodies ==
    {Undefined, ArrayBody(<<Approved>>), ArrayBody(<<Denied(NO_CONSENT)>>),
     Obj([messageId |-> "CSIBT0207I"])}

\* the catch block of the operations of DPCM: status 'deny', and
\* error.response.data is read without a guard
CatchDeny(err) ==
    IF "response" \notin DOMAIN err
    THEN [rejected |-> TypeError]
    ELSE IF "data" \in DOMAIN err.response
         THEN [status |-> "deny", detail |-> err.response.data]
         ELSE [status |-> "deny"]

\* DPCM.requestApproval up to the await
RequestApprovalCall ==
    /\ pc = "DPCM.requestApproval"
    /\ request' = requestApproval(context, items)
    /\ calls' = Send(calls, request')
    /\ pc' = "awaitFacade"
    /\ UNCHANGED <<clientVars, error, op, items, assessVars, normVars, result>>

\* DPCM.getConsentMetadata up to the await
ConsentMetadataCall ==
    /\ pc = "DPCM.getConsentMetadata"
    /\ request' = getConsentMetadata(context, items)
    /\ calls' = Send(calls, request')
    /\ pc' = "awaitFacade"
    /\ UNCHANGED <<clientVars, error, op, items, assessVars, normVars, result>>

\* DPCM.storeConsents up to the await: forEach writes the context into the
\* caller's entries
StoreConsentsCall ==
    /\ pc = "DPCM.storeConsents"
    /\ items' = AugmentedConsents(context, items)
    /\ request' = storeConsents(context, items)
    /\ calls' = Send(calls, request')
    /\ pc' = "awaitFacade"
    /\ UNCHANGED <<clientVars, error, op, assessVars, normVars, result>>

\* DPCM.getUserConsents up to the await
UserConsentsCall ==
    /\ pc = "DPCM.getUserConsents"
    /\ request' = getUserConsents(context)
    /\ calls' = Send(calls, request')
    /\ pc' = "awaitFacade"
    /\ UNCHANGED <<clientVars, error, op, items, assessVars, normVars, result>>

\* the transport call resolves: `return {status: 'done', response: r}`
FacadeResolves ==
    /\ pc = "awaitFacade"
    /\ response' \in TransportBodies
    /\ result' = [status |-> "done", response |-> response']
    /\ pc' = "resolved"
    /\ UNCHANGED <<clientVars, calls, error, op, items, request, assessVars,
                   itemSet, heap, metadata, records, p, k>>

\* the transport call rejects: the catch block builds the envelope
FacadeFails ==
    /\ pc = "awaitFacade"
    /\ error' \in TransportErrors
    /\ result' = CatchDeny(error')
    /\ pc' = IF "rejected" \in DOMAIN result' THEN "rejected" ELSE "resolved"
    /\ UNCHANGED <<clientVars, calls, op, items, request, assessVars, normVars>>

InitDPCM ==
    /\ config = TenantConfig
    /\ auth = TokenAuth
    /\ context \in Contexts
    /\ calls = <<>>
    /\ error = NoError
    /\ op \in DPCMOps
    /\ pc = op
    /\ items \in CASE op = "DPCM.requestApproval" -> AssessItems
                  [] op = "DPCM.getConsentMetadata" -> PurposeLists
                  [] op = "DPCM.storeConsents" -> EntryLists
                  [] OTHER -> {<<>>}
    /\ request = NoRequest
    /\ assessment = NoBody
    /\ status = "null"
    /\ i = 1
    /\ itemSet = {}
    /\ response = NoResponse
    /\ heap = <<>>
    /\ metadata = NoMetadata
    /\ records = NoRecords
    /\ p = 1
    /\ k = 1
    /\ result = Pending

NextDPCM ==
    \/ RequestApprovalCall
    \/ ConsentMetadataCall
    \/ StoreConsentsCall
    \/ UserConsentsCall
    \/ FacadeResolves
    \/ FacadeFails

SpecDPCM == InitDPCM /\ [][NextDPCM]_vars

----------------------------------------------------------------------------
(* The three operations of a Privacy client *)

InitPrivacy == InitAssess \/ InitMeta \/ InitConsents

NextPrivacy == NextAssess \/ NextMeta \/ NextConsents

SpecPrivacy == InitPrivacy /\ [][NextPrivacy]_vars

----------------------------------------------------------------------------
(* Claims about Privacy.assess (SpecAssess) *)

\* result[0].approved is true
EntryApproved(ia) ==
    /\ "result" \in DOMAIN ia
    /\ Len(ia.result) > 0
    /\ ia.result[1].approved

\* result[0].approved is false and reason.messageId is the given code
EntryDeniedWith(ia, messageId) ==
    /\ "result" \in DOMAIN ia
    /\ Len(ia.result) > 0
    /\ ~ia.result[1].approved
    /\ "reason" \in DOMAIN ia.result[1]
    /\ ia.result[1].reason.messageId = messageId

EntryNeedsConsent(ia) == EntryDeniedWith(ia, NO_CONSENT)

\* the call has settled after receiving an array
SettledOnArray == pc \in {"resolved", "rejected"} /\ IsArray(assessment)

\* every entry is approved, needs consent, or is denied for another reason
ApprovedOrDeniedWithReason(a) ==
    \A j \in 1..Len(a) :
        \/ EntryApproved(a[j])
        \/ EntryNeedsConsent(a[j])
        \/ EntryDeniedWith(a[j], OTHER_REASON)

\* C1: when the array holds an entry that needs consent (not approved, reason
\* CSIBT0033I) and its other entries are approved or denied for another
\* reason, the status is "consent" from the moment that entry is visited, and
\* assess resolves with status "consent" and the array.
C1_ConsentOverrides ==
    (/\ IsArray(assessment)
     /\ ApprovedOrDeniedWithReason(assessment.array)
     /\ \E j \in 1..Len(assessment.array) : EntryNeedsConsent(assessment.array[j]))
    => /\ pc # "rejected"
       /\ (\E j \in 1..(i - 1) : EntryNeedsConsent(assessment.array[j]))
            => status = "consent"
       /\ pc = "resolved"
            => result = [status |-> "consent", assessment |-> assessment.array]

\* an approved entry is visited before and after the one that needs consent
C1_Witness ==
    /\ pc = "resolved"
    /\ IsArray(assessment)
    /\ Len(assessment.array) = 3
    /\ EntryApproved(assessment.array[1])
    /\ EntryNeedsConsent(assessment.array[2])
    /\ EntryApproved(assessment.array[3])
    /\ result.status = "consent"

\* C2: whenever assess returns status "approved", every entry of the returned
\* assessment has result[0].approved true.
C2_ApprovedMeansAllApproved ==
    (pc = "resolved" /\ IsArray(assessment) /\ result.status = "approved")
    => \A j \in 1..Len(result.assessment) : EntryApproved(result.assessment[j])

\* C3: assess returns status "denied" exactly when the body is an array with
\* no approved entry and no entry that needs consent (the empty array
\* included).
C3_DeniedExactly ==
    SettledOnArray
    => ((pc = "resolved" /\ result.status = "denied")
        <=> \A j \in 1..Len(assessment.array) :
                /\ ~EntryApproved(assessment.array[j])
                /\ ~EntryNeedsConsent(assessment.array[j]))

----------------------------------------------------------------------------
(* Claims about DPCMService.processConsentMetadata (SpecNorm) *)

RECURSIVE Flatten(_)
Flatten(ss) == IF ss = <<>> THEN <<>> ELSE Head(ss) \o Flatten(Tail(ss))

\* the purpose/attribute/access-type combinations a purpose of the response
\* lists, one per listing
CombinationsOf(entry) ==
    IF "attributes" \notin DOMAIN entry.value THEN <<>>
    ELSE LET attrs == entry.value.attributes
         IN Flatten([a \in 1..Len(attrs) |->
                [t \in 1..Len(attrs[a].accessTypes) |->
                    [purposeID |-> entry.key,
                     purposeId |-> entry.value.id,
                     attributeId |-> attrs[a].id,
                     attributeName |-> response.attributes[attrs[a].id].name,
                     accessTypeId |-> attrs[a].accessTypes[t].id]]])

Combinations ==
    Flatten([j \in 1..Len(response.purposes) |->
                CombinationsOf(response.purposes[j])])

IdKey(c) == KeyName(c.purposeID, c.attributeId, c.accessTypeId)
AliasKey(c) == KeyName(c.purposeID, c.attributeName, c.accessTypeId)

\* how often the list of combinations cs holds combination c
Listings(cs, c) ==
    Cardinality({j \in 1..Len(cs) : cs[j] = c})

\* the records of both lists of a returned metadata object
AllRecords(md) == md.eula \o md.default

\* the positions in the list of records rs of the records for combination c
RecordsFor(rs, c) ==
    {j \in 1..Len(rs) :
        /\ rs[j].purposeId = c.purposeId
        /\ rs[j].attributeId = Str(c.attributeId)
        /\ rs[j].accessTypeId = c.accessTypeId}

Done == op = "processConsentMetadata" /\ pc = "resolved"

\* C6: a combination of the response has records in the returned metadata
\* only if its key or its name alias is in the item-key set; a combination
\* with neither in the set has none, one with either has a record for each of
\* its listings.
C6_FilteredByItemSet ==
    Done =>
        LET cs == Combinations
            rs == AllRecords(result)
        IN \A j \in 1..Len(cs) :
            Cardinality(RecordsFor(rs, cs[j])) =
                IF IdKey(cs[j]) \in itemSet \/ AliasKey(cs[j]) \in itemSet
                THEN Listings(cs, cs[j]) ELSE 0

\* one combination is emitted although another of the same response is dropped
C6_Witness ==
    /\ Done
    /\ \E j1, j2 \in 1..Len(Combinations) :
        /\ IdKey(Combinations[j1]) \in itemSet
        /\ RecordsFor(AllRecords(result), Combinations[j1]) # {}
        /\ IdKey(Combinations[j2]) \notin itemSet
        /\ AliasKey(Combinations[j2]) \notin itemSet
        /\ RecordsFor(AllRecords(result), Combinations[j2]) = {}

\* the consents of the response that carry the ids of combination c
ConsentsFor(c) ==
    {n \in 1..Len(response.consents) :
        /\ Prop(response.consents[n], "purposeId") = Str(c.purposeID)
        /\ Prop(response.consents[n], "attributeId") = Str(c.attributeId)
        /\ Prop(response.consents[n], "accessTypeId") = Str(c.accessTypeId)}

C8_OneRecordPerTriple ==
    Done =>
        \A r1, r2 \in 1..Len(AllRecords(result)) :
            (/\ AllRecords(result)[r1].purposeId = AllRecords(result)[r2].purposeId
             /\ AllRecords(result)[r1].attributeId = AllRecords(result)[r2].attributeId
             /\ AllRecords(result)[r1].accessTypeId = AllRecords(result)[r2].accessTypeId)
            => r1 = r2

\* the key purposeId/attributeId.accessTypeId of a consent record, a missing
\* id read as the empty string
ConsentKey(consent) ==
    KeyName(consent.purposeId.s,
            IF "attributeId" \in DOMAIN consent THEN consent.attributeId.s ELSE "",
            IF "accessTypeId" \in DOMAIN consent THEN consent.accessTypeId.s ELSE "")

\* the reconciliation pass takes its step for consent number k
ConsentStep ==
    /\ pc = "purposes"
    /\ p > Len(response.purposes)
    /\ k <= Len(response.consents)
    /\ k' = k + 1

\* C9: a consent whose key is the key of a registered record sets that
\* record's consent to the consent, its consentType to the consent's state
\* and its status to "ACTIVE" if the consent's status is 1 and to "EXPIRED"
\* otherwise.
C9_Reconcile ==
    [][ConsentStep =>
        LET consent == response.consents[k]
        IN ConsentKey(consent) \in DOMAIN records =>
            LET before == heap[records[ConsentKey(consent)]]
                after == heap'[records[ConsentKey(consent)]]
            IN /\ after.consent = consent
               /\ after.consentType = consent.state
               /\ after.status = IF consent.status = Num(1)
                                 THEN "ACTIVE" ELSE "EXPIRED"
               /\ after.purposeId = before.purposeId
               /\ after.attributeId = before.attributeId
               /\ after.accessTypeId = before.accessTypeId]_vars

\* a record has been set to "EXPIRED" by a consent whose status is 2 and
\* whose state is 4
C9_Witness ==
    /\ Done
    /\ \E r \in 1..Len(AllRecords(result)) :
        /\ AllRecords(result)[r].status = "EXPIRED"
        /\ "consent" \in DOMAIN AllRecords(result)[r]
        /\ AllRecords(result)[r].consent.status = Num(2)
        /\ AllRecords(result)[r].consentType = Num(4)

\* C10: a record's status starts "NONE", changes only when a consent with
\* the record's key is processed, and once "ACTIVE" it is never replaced by
\* "EXPIRED" or "NONE".
C10_NeverDowngraded ==
    [][/\ \A ref \in 1..Len(heap') :
            ref > Len(heap) => heap'[ref].status = "NONE"
       /\ \A ref \in 1..Len(heap) :
            /\ heap'[ref].status # heap[ref].status
                 => /\ ConsentStep
                    /\ ConsentKey(response.consents[k]) \in DOMAIN records
                    /\ records[ConsentKey(response.consents[k])] = ref
            /\ heap[ref].status = "ACTIVE" => heap'[ref].status = "ACTIVE"]_vars

\* how often the list of references refs holds ref
Occurrences(refs, ref) ==
    Cardinality({j \in 1..Len(refs) : refs[j] = ref})

\* the category of the purpose of the response whose id is purposeId
CategoryOf(purposeId) ==
    LET e == CHOOSE e \in 1..Len(response.purposes) :
                 response.purposes[e].value.id = purposeId
    IN response.purposes[e].value.category

\* C11: every record processConsentMetadata has built is in exactly one of
\* the two lists, once: in metadata.eula when the category of its purpose is
\* "eula", in metadata.default otherwise; the lists hold nothing else, and
\* the lists returned are these records. The purpose may have an attributes
\* array or access types of its own.
C11_Bucketed ==
    op = "processConsentMetadata" =>
        /\ \A ref \in 1..Len(heap) :
            IF CategoryOf(heap[ref].purposeId) = "eula"
            THEN /\ Occurrences(metadata.eula, ref) = 1
                 /\ Occurrences(metadata.default, ref) = 0
            ELSE /\ Occurrences(metadata.eula, ref) = 0
                 /\ Occurrences(metadata.default, ref) = 1
        /\ Len(metadata.eula) + Len(metadata.default) = Len(heap)
        /\ pc = "resolved" =>
            /\ Len(result.eula) = Len(metadata.eula)
            /\ Len(result.default) = Len(metadata.default)
            /\ \A j \in 1..Len(result.eula) :
                  result.eula[j] = heap[metadata.eula[j]]
            /\ \A j \in 1..Len(result.default) :
                  result.default[j] = heap[metadata.default[j]]

\* a purpose of category "eula" with an attributes array has had two of its
\* combinations returned in `eula` and none in `default`
C11_Witness ==
    /\ Done
    /\ response.purposes # <<>>
    /\ response.purposes[1].value.category = "eula"
    /\ "attributes" \in DOMAIN response.purposes[1].value
    /\ Len(result.eula) = 2
    /\ result.default = <<>>

----------------------------------------------------------------------------
(* Claims about Privacy.getConsentMetadata (SpecMeta) *)

\* purposeId + "/" + attributeId + "." + accessTypeId, an absent attributeId
\* read as "" and an absent (or empty) accessTypeId as "default"
ExpectedItemKey(item) ==
    KeyName(item.purposeId.s,
            IF "attributeId" \in DOMAIN item THEN item.attributeId.s ELSE "",
            IF "accessTypeId" \in DOMAIN item /\ item.accessTypeId.s # ""
            THEN item.accessTypeId.s ELSE "default")

\* C4: the item-key set holds, for each caller item, exactly the key
\* purposeId/attributeId.accessTypeId, an absent attributeId contributing ""
\* and an absent accessTypeId "default".
C4_ItemKeys ==
    (op = "getConsentMetadata" /\ pc # "getConsentMetadata")
    => itemSet = {ExpectedItemKey(items[j]) : j \in 1..Len(items)}

\* the purposes of the response that list the item's attribute with the
\* item's access type, exactly once
ListingsOfItem(item) ==
    {j \in 1..Len(Combinations) :
        /\ Combinations[j].purposeID = item.purposeId.s
        /\ Combinations[j].attributeId = item.attributeId.s
        /\ Combinations[j].accessTypeId = item.accessTypeId.s}

\* C5: called with an item (purposeId, attributeId, accessTypeId) and
\* answered with a response whose purpose lists that attribute with that
\* access type and no consents, getConsentMetadata resolves with status
\* "done" and exactly one record for the item, of status "NONE", in `default`
\* for a purpose that is not an eula.
C5_EndToEnd ==
    (/\ op = "getConsentMetadata"
     /\ pc \in {"resolved", "rejected"}
     /\ Len(response.purposes) > 0
     /\ response.consents = <<>>)
    => \A n \in 1..Len(items) :
         ("attributeId" \in DOMAIN items[n]
             /\ Cardinality(ListingsOfItem(items[n])) = 1)
         => /\ pc = "resolved"
            /\ result.status = "done"
            /\ \E r \in 1..Len(AllRecords(result.metadata)) :
                 /\ AllRecords(result.metadata)[r].purposeId = items[n].purposeId.s
                 /\ AllRecords(result.metadata)[r].attributeId = items[n].attributeId
                 /\ AllRecords(result.metadata)[r].accessTypeId = items[n].accessTypeId.s
                 /\ AllRecords(result.metadata)[r].status = "NONE"
                 /\ \A r2 \in 1..Len(AllRecords(result.metadata)) :
                      (/\ AllRecords(result.metadata)[r2].attributeId = items[n].attributeId
                       /\ AllRecords(result.metadata)[r2].accessTypeId = items[n].accessTypeId.s)
                      => r2 = r
            /\ \A e \in 1..Len(response.purposes) :
                 (response.purposes[e].key = items[n].purposeId.s
                     /\ response.purposes[e].value.category # "eula")
                 => result.metadata.eula = <<>>

----------------------------------------------------------------------------
(* Claims about the operations of a Privacy client (SpecPrivacy) *)

PrivacyOps == {"assess", "getConsentMetadata", "getUserConsents"}

\* the promise of the operation has settled
Settled == pc \in {"resolved", "rejected"}

\* the transport call failed with an error that carries response.data
FailedWithData ==
    /\ error \in TransportErrors
    /\ "response" \in DOMAIN error
    /\ "data" \in DOMAIN error.response

\* C12: when the transport call of assess, getConsentMetadata or
\* getUserConsents fails with an error that carries response.data = D, the
\* operation resolves with exactly {status: "error", detail: D}: no
\* assessment, metadata or consents field.
C12_ErrorEnvelope ==
    (op \in PrivacyOps /\ Settled /\ FailedWithData)
    => /\ pc = "resolved"
       /\ result = [status |-> "error", detail |-> error.response.data]

\* getConsentMetadata has resolved with the body of a 400 response as detail
C12_Witness ==
    /\ op = "getConsentMetadata"
    /\ pc = "resolved"
    /\ FailedWithData
    /\ result.status = "error"
    /\ result.detail = [messageId |-> "CSIBT0004E"]

\* C13: whatever the transport failure, an error without a response object
\* or a response without a body included, assess, getConsentMetadata and
\* getUserConsents do not reject: they resolve, and without response.data
\* they resolve with {status: "error"} and no detail.
C13_NeverRejects ==
    (op \in PrivacyOps /\ Settled /\ error \in TransportErrors)
    => /\ pc = "resolved"
       /\ ~FailedWithData => result = [status |-> "error"]

----------------------------------------------------------------------------
(* Claims about the constructor of Privacy (SpecConstruct) *)

\* v has a non-empty string under key
NonEmptyString(v, key) ==
    /\ v.t = "object"
    /\ key \in DOMAIN v.o
    /\ v.o[key].t = "string"
    /\ v.o[key].s # ""

\* C15: constructing Privacy with a config that lacks a non-empty string
\* tenantUrl, or an auth that lacks a non-empty string accessToken, throws
\* a ConfigurationError whose message names a missing field, and no
\* transport call has been made; with both present the construction does
\* not throw and makes no transport call.
C15_ConfigValidation ==
    pc # "new" =>
        IF NonEmptyString(config, "tenantUrl")
           /\ NonEmptyString(auth, "accessToken")
        THEN /\ pc # "thrown"
             /\ pc = op => calls = <<>>
        ELSE /\ pc = "thrown"
             /\ calls = <<>>
             /\ result.thrown.name = "ConfigurationError"
             /\ \/ /\ ~NonEmptyString(config, "tenantUrl")
                   /\ result.thrown.message =
                        "Cannot find property 'tenantUrl' in configuration settings."
                \/ /\ ~NonEmptyString(auth, "accessToken")
                   /\ result.thrown.message =
                        "Cannot find property 'accessToken' in auth"

----------------------------------------------------------------------------
(* Claims about repeated calls of Privacy.getConsentMetadata (SpecTwice) *)

\* the step is the loop and the post of an invocation of getConsentMetadata
MetadataCallStep ==
    /\ op = "getConsentMetadata"
    /\ pc = "getConsentMetadata"
    /\ pc' = "awaitMetadata"

\* C17: an invocation of getConsentMetadata leaves every item with its
\* accessTypeId, set to "default" in place where it was missing or empty;
\* a second invocation with the same array sends the same list of purpose
\* ids as the first, computes the same item-key set and changes no item.
C17_IdempotentDefaulting ==
    [][MetadataCallStep =>
        /\ Len(items') = Len(items)
        /\ \A j \in 1..Len(items) :
            /\ items'[j].accessTypeId =
                  IF "accessTypeId" \in DOMAIN items[j]
                     /\ items[j].accessTypeId # Str("")
                  THEN items[j].accessTypeId ELSE Str("default")
            /\ \A f \in DOMAIN items[j] \ {"accessTypeId"} :
                  items'[j][f] = items[j][f]
        /\ calls # <<>> =>
            /\ request'.body.purposeId = calls[1].body.purposeId
            /\ itemSet' = itemSet
            /\ items' = items]_vars

\* the second invocation has made its call, on an array in which the first
\* had set the accessTypeId of an item that came without one
C17_Witness ==
    /\ op = "getConsentMetadata"
    /\ Len(calls) = 2
    /\ calls[2].body.purposeId = calls[1].body.purposeId
    /\ \E j \in 1..Len(items) :
        /\ "attributeId" \notin DOMAIN items[j]
        /\ items[j].accessTypeId = Str("default")

----------------------------------------------------------------------------
(* Claims about the requests of DPCMService (SpecDPCM) *)

\* the fields the SDK sets, each with the context value it comes from
ContextFields ==
    {<<"subjectId", "subjectId">>,
     <<"isExternalSubject", "isExternalSubject">>,
     <<"geoIP", "ipAddress">>}

\* a context value that is there: not absent, null, empty or false
HasValue(v) == v \notin {Undefined, Null, Str(""), Bool(FALSE)}

\* `after` is `before` with the context written into it: a field is set to
\* the context's value when the context has one, and is as it was in
\* `before` (there or not) otherwise; every other field is as it was
AugmentedAs(before, after) ==
    /\ \A fk \in ContextFields :
        IF HasValue(Prop(context, fk[2]))
        THEN /\ fk[1] \in DOMAIN after
             /\ after[fk[1]] = context[fk[2]]
        ELSE /\ fk[1] \in DOMAIN after <=> fk[1] \in DOMAIN before
             /\ fk[1] \in DOMAIN after => after[fk[1]] = before[fk[1]]
    /\ DOMAIN after \subseteq DOMAIN before \cup {fk[1] : fk \in ContextFields}
    /\ \A f \in DOMAIN before \ {fk[1] : fk \in ContextFields} :
        /\ f \in DOMAIN after
        /\ after[f] = before[f]

\* C18: the payload of requestApproval and of getConsentMetadata, and each
\* entry of storeConsents, goes out with subjectId, isExternalSubject and
\* geoIP set to the context's subjectId, isExternalSubject and ipAddress
\* exactly when the context value is present and not null, empty or false;
\* otherwise no such field is added, and all other fields are unchanged.
C18_Augmented ==
    [][/\ (pc = "DPCM.requestApproval" /\ pc' = "awaitFacade")
            => AugmentedAs([items |-> items], request'.body)
       /\ (pc = "DPCM.getConsentMetadata" /\ pc' = "awaitFacade")
            => AugmentedAs([purposeId |-> items], request'.body)
       /\ (pc = "DPCM.storeConsents" /\ pc' = "awaitFacade")
            => /\ Len(request'.body) = Len(items)
               /\ \A j \in 1..Len(items) :
                    AugmentedAs(items[j], request'.body[j].value.o)]_vars

\* storeConsents has sent an entry under a context with a subjectId, with
\* isExternalSubject false and with ipAddress null
C18_Witness ==
    /\ op = "DPCM.storeConsents"
    /\ calls # <<>>
    /\ context = [subjectId |-> Str("u1"), isExternalSubject |-> Bool(FALSE),
                  ipAddress |-> Null]
    /\ Len(request.body) = 2
    /\ request.body[1].value.o.subjectId = Str("u1")
    /\ "isExternalSubject" \notin DOMAIN request.body[1].value.o
    /\ "geoIP" \notin DOMAIN request.body[1].value.o

\* the entry is an explicit operation: an object with op, path and value
IsOperation(entry) == {"op", "path", "value"} \subseteq DOMAIN entry

\* C19: storeConsents issues one PATCH; its body has one operation per
\* entry, in the order of the entries: {op: "add", value: <the augmented
\* entry>}, or, for an entry that is itself an operation (op, path, value),
\* that operation with the op, path and value the caller gave.
C19_OneOperationPerEntry ==
    (op = "DPCM.storeConsents" /\ calls # <<>>)
    => /\ calls = <<request>>
       /\ request.method = "patch"
       /\ Len(request.body) = Len(items)
       /\ \A j \in 1..Len(items) :
            IF IsOperation(items[j])
            THEN /\ request.body[j].op = items[j].op
                 /\ Prop(request.body[j], "path") = items[j].path
                 /\ request.body[j].value = items[j].value
            ELSE request.body[j] = [op |-> Str("add"), value |-> Obj(items[j])]

\* C20: DPCM.storeConsents resolves with {status: "done", response: <the
\* transport body>} when the PATCH succeeds, a partial-failure body
\* included, and with {status: "error"}, plus detail when the error has a
\* body, when the PATCH fails; it never rejects.
C20_StoreEnvelope ==
    (op = "DPCM.storeConsents" /\ Settled)
    => /\ pc = "resolved"
       /\ result = IF error = NoError
                   THEN [status |-> "done", response |-> response]
                   ELSE IF FailedWithData
                   THEN [status |-> "error", detail |-> error.response.data]
                   ELSE [status |-> "error"]

----------------------------------------------------------------------------
(* Two calls of the DPCM client in flight at once. Each of the variables   *)
(* context, op, pc, request, response, error and result is a pair here,    *)
(* one component per call. `items` is the array as the caller built it and *)
(* hands it to both calls; `heap` holds the entry objects the array refers *)
(* to, which both calls read and storeConsents writes. A call suspends at  *)
(* its one transport call; the request is the body as it is when the call  *)
(* is issued.                                                              *)

Callers == {1, 2}

\* the contexts of the two clients: none, a subject, a subject with the
\* external flag and an address, the external flag alone
ClientContexts ==
    {ctx \in Contexts :
        /\ \A f \in DOMAIN ctx : Present(ctx[f]) \/ ctx[f] = Bool(FALSE)
        /\ DOMAIN ctx \in {{}, {"subjectId"}, {"isExternalSubject"},
                           {"subjectId", "isExternalSubject", "ipAddress"}}}

TwoCallOps == {"DPCM.requestApproval", "DPCM.storeConsents"}

\* the arrays handed to both calls
SharedLists == {l \in EntryLists : l # <<>>}

Pair(v) == <<v, v>>

\* DPCM.requestApproval of call c up to the await
TwoRequestApprovalCall(c) ==
    /\ pc[c] = "DPCM.requestApproval"
    /\ request' = [request EXCEPT ![c] = requestApproval(context[c], heap)]
    /\ calls' = Send(calls, request'[c])
    /\ pc' = [pc EXCEPT ![c] = "awaitFacade"]
    /\ UNCHANGED <<clientVars, error, op, items, assessVars, normVars, result>>

\* DPCM.storeConsents of call c up to the await: forEach writes the
\* context of the call into the entry objects
TwoStoreConsentsCall(c) ==
    /\ pc[c] = "DPCM.storeConsents"
    /\ heap' = AugmentedConsents(context[c], heap)
    /\ request' = [request EXCEPT ![c] = storeConsents(context[c], heap)]
    /\ calls' = Send(calls, request'[c])
    /\ pc' = [pc EXCEPT ![c] = "awaitFacade"]
    /\ UNCHANGED <<clientVars, error, op, items, assessVars, itemSet,
                   response, metadata, records, p, k, result>>

\* the transport call of call c resolves
TwoFacadeResolves(c) ==
    /\ pc[c] = "awaitFacade"
    /\ \E body \in TransportBodies :
        /\ response' = [response EXCEPT ![c] = body]
        /\ result' = [result EXCEPT ![c] = [status |-> "done",
                                            response |-> body]]
    /\ pc' = [pc EXCEPT ![c] = "resolved"]
    /\ UNCHANGED <<clientVars, calls, error, op, items, request, assessVars,
                   itemSet, heap, metadata, records, p, k>>

\* the transport call of call c rejects
TwoFacadeFails(c) ==
    /\ pc[c] = "awaitFacade"
    /\ \E err \in TransportErrors :
        /\ error' = [error EXCEPT ![c] = err]
        /\ result' = [result EXCEPT ![c] = CatchDeny(err)]
    /\ pc' = [pc EXCEPT ![c] =
                 IF "rejected" \in DOMAIN result'[c] THEN "rejected"
                 ELSE "resolved"]
    /\ UNCHANGED <<clientVars, calls, op, items, request, assessVars, normVars>>

InitTwoCalls ==
    /\ config = TenantConfig
    /\ auth = TokenAuth
    /\ context \in ClientContexts \X ClientContexts
    /\ calls = <<>>
    /\ error = Pair(NoError)
    /\ op \in TwoCallOps \X TwoCallOps
    /\ pc = op
    /\ items \in SharedLists
    /\ request = Pair(NoRequest)
    /\ assessment = NoBody
    /\ status = "null"
    /\ i = 1
    /\ itemSet = {}
    /\ response = Pair(NoResponse)
    /\ heap = items
    /\ metadata = NoMetadata
    /\ records = NoRecords
    /\ p = 1
    /\ k = 1
    /\ result = Pair(Pending)

NextTwoCalls ==
    \E c \in Callers :
        \/ TwoRequestApprovalCall(c)
        \/ TwoStoreConsentsCall(c)
        \/ TwoFacadeResolves(c)
        \/ TwoFacadeFails(c)

SpecTwoCalls == InitTwoCalls /\ [][NextTwoCalls]_vars

----------------------------------------------------------------------------
(* Claims about the requests and the operations of the clients, continued  *)

\* C21: getUserConsents issues one GET to /config/v1.0/privacy/consents; the
\* path carries ?search= and the URL-escaped filter subjectId="<subjectId>"
\* exactly when the context has a non-empty subjectId; when the call succeeds
\* the method resolves with status "done" and the `consents` of the body.
C21_UserConsents ==
    (op = "getUserConsents" /\ pc # "getUserConsents") =>
        /\ Len(calls) = 1
        /\ calls[1].method = "get"
        /\ calls[1].path =
              IF "subjectId" \in DOMAIN context /\ context.subjectId = Str("u1")
              THEN "/config/v1.0/privacy/consents?search=subjectId%3D%22u1%22"
              ELSE "/config/v1.0/privacy/consents"
        /\ (Settled /\ error = NoError) =>
              /\ pc = "resolved"
              /\ result = [status |-> "done",
                           consents |-> Prop(response.o, "consents")]

\* the call of a client whose context names a subject has resolved with the
\* one consent of the body
C21_Witness ==
    /\ op = "getUserConsents"
    /\ pc = "resolved"
    /\ error = NoError
    /\ "subjectId" \in DOMAIN context
    /\ context.subjectId = Str("u1")
    /\ result.status = "done"
    /\ Len(result.consents) = 1

\* what call c sends when no other call touches the caller's array
AloneRequest(c) ==
    IF op[c] = "DPCM.storeConsents"
    THEN storeConsents(context[c], items)
    ELSE requestApproval(context[c], items)

\* what call c returns for the outcome of its own transport call
AloneResult(c) ==
    IF error[c] = NoError
    THEN [status |-> "done", response |-> response[c]]
    ELSE CatchDeny(error[c])

\* C22: for every interleaving of two calls in flight that were given the
\* same array, the request of each call and its result are those of the
\* call running alone.
C22_Isolated ==
    \A c \in Callers :
        /\ pc[c] # op[c] => request[c] = AloneRequest(c)
        /\ pc[c] \in {"resolved", "rejected"} => result[c] = AloneResult(c)

\* C23: DPCM.requestApproval resolves with status "done" and the transport
\* body as it arrived, approved or not, without reducing it to a status;
\* when the transport call fails it resolves with status "deny", with the
\* body of the error as detail when the error has one.
C23_ApprovalEnvelope ==
    (op = "DPCM.requestApproval" /\ pc \in {"resolved", "rejected"}) =>
        IF error = NoError
        THEN /\ pc = "resolved"
             /\ result = [status |-> "done", response |-> response]
        ELSE /\ pc = "resolved"
             /\ result.status = "deny"
             /\ FailedWithData => result.detail = error.response.data
             /\ ~FailedWithData => "detail" \notin DOMAIN result

\* C24: Privacy.getUserConsents called with {filterByCurrentApplication:
\* true} resolves with consents that all carry an applicationId: the
\* consents of the body that have none are filtered out.
C24_CurrentApplication ==
    (/\ op = "getUserConsents"
     /\ items = <<[filterByCurrentApplication |-> Bool(TRUE)]>>
     /\ pc = "resolved"
     /\ error = NoError
     /\ "consents" \in DOMAIN response.o) =>
        /\ result.status = "done"
        /\ \A n \in 1..Len(result.consents) :
              "applicationId" \in DOMAIN result.consents[n]

\* the key a returned record was registered under
RecordKey(record) ==
    KeyName(record.purposeId,
            IF record.attributeId.t = "string" THEN record.attributeId.s ELSE "",
            record.accessTypeId)

\* the consents of the response whose key is `name`
ConsentsWithKey(name) ==
    {n \in 1..Len(response.consents) : ConsentKey(response.consents[n]) = name}

\* a returned record is untouched exactly when no consent has its key
UntouchedIffNoConsent ==
    Done =>
        \A r \in 1..Len(AllRecords(result)) :
            LET record == AllRecords(result)[r]
            IN (record.status = "NONE" /\ "consent" \notin DOMAIN record)
               <=> ConsentsWithKey(RecordKey(record)) = {}

\* the step for a consent whose key has no registered record changes
\* nothing but the position of the loop
UnmatchedConsentSkipped ==
    (ConsentStep /\ ConsentKey(response.consents[k]) \notin DOMAIN records)
        => /\ UNCHANGED <<heap, records, metadata, pc, error, result>>

\* C25: in the returned metadata a record has status "NONE" and no consent
\* exactly when no consent of the response has the key the record was
\* registered under; a consent whose key has no registered record raises no
\* error and changes no record.
C25_UnmatchedIgnored ==
    /\ []UntouchedIffNoConsent
    /\ [][UnmatchedConsentSkipped]_vars

\* the records of the list rs that were made for the purpose with this id
RecordsOfPurpose(rs, id) == SelectSeq(rs, LAMBDA record : record.purposeId = id)

\* the access types of a purpose whose key purposeID/.id is in the set
KeptAccessTypes(entry) ==
    SelectSeq(entry.value.accessTypes,
              LAMBDA accessType : KeyName(entry.key, "", accessType.id) \in itemSet)

\* C26: for a purpose without an attributes array the returned metadata
\* holds one record per access type whose key purposeId/.accessTypeId is in
\* the item-key set, in the order of the array, and none for the others; the
\* record has attributeId and attributeName null, the access type's
\* assentUIDefault or false when it has none, and as consentType the access
\* type's legalCategory or 4 when it has none (until a consent replaces it).
C26_PurposeLevel ==
    Done =>
        \A j \in 1..Len(response.purposes) :
            LET entry == response.purposes[j]
            IN "attributes" \notin DOMAIN entry.value =>
                LET rs == RecordsOfPurpose(AllRecords(result), entry.value.id)
                    kept == KeptAccessTypes(entry)
                IN /\ Len(rs) = Len(kept)
                   /\ \A n \in 1..Len(rs) :
                        /\ rs[n].accessTypeId = kept[n].id
                        /\ rs[n].attributeId = Null
                        /\ rs[n].attributeName = Null
                        /\ rs[n].assentUIDefault =
                              IF "assentUIDefault" \in DOMAIN kept[n]
                              THEN kept[n].assentUIDefault ELSE Bool(FALSE)
                        /\ "consent" \notin DOMAIN rs[n] =>
                              rs[n].consentType =
                                 IF "legalCategory" \in DOMAIN kept[n]
                                 THEN kept[n].legalCategory ELSE Num(4)

\* a purpose without attributes lists access type "default" without a
\* legal category and access type "read"; only the first is in the set, and
\* its record has the defaults
C26_Witness ==
    /\ Done
    /\ Len(response.purposes) = 1
    /\ "attributes" \notin DOMAIN response.purposes[1].value
    /\ response.purposes[1].value.accessTypes =
          <<[id |-> "default"], AccessTypeEntry("read")>>
    /\ Len(AllRecords(result)) = 1
    /\ AllRecords(result)[1].assentUIDefault = Bool(FALSE)
    /\ AllRecords(result)[1].consentType = Num(4)
    /\ AllRecords(result)[1].attributeId = Null

\* the references of the records built with access type "default"
DefaultAccessRecords == {ref \in 1..Len(heap) : heap[ref].accessTypeId = "default"}

\* C27: the reconciliation pass looks a consent up under
\* purposeId/attributeId.accessTypeId with the empty string for a missing
\* attributeId or accessTypeId; the step for a consent without accessTypeId
\* therefore changes no record built with access type "default", which
\* keeps the status it had.
C27_EmptyStringKey ==
    [][ConsentStep =>
        LET consent == response.consents[k]
        IN /\ ConsentName(consent) = ConsentKey(consent)
           /\ (ConsentKey(consent) \in DOMAIN records) =>
                 heap'[records[ConsentKey(consent)]].consent = consent
           /\ "accessTypeId" \notin DOMAIN consent =>
                 \A ref \in DefaultAccessRecords : heap'[ref] = heap[ref]]_vars

\* the only consent of the response names attribute 11 and no access type;
\* the record of attribute 11 with access type "default" is returned with
\* status "NONE"
C27_Witness ==
    /\ Done
    /\ Len(response.consents) = 1
    /\ "accessTypeId" \notin DOMAIN response.consents[1]
    /\ response.consents[1].attributeId = Str("11")
    /\ \E r \in 1..Len(AllRecords(result)) :
        /\ AllRecords(result)[r].attributeId = Str("11")
        /\ AllRecords(result)[r].accessTypeId = "default"
        /\ AllRecords(result)[r].status = "NONE"
        /\ "consent" \notin DOMAIN AllRecords(result)[r]

----------------------------------------------------------------------------
(* Claims about Privacy.assess, continued (SpecAssess) *)

\* the loop of assess run over the array a from entry j with status st:
\* the status it returns, or "throws" when an entry makes it throw
RECURSIVE Reduce(_, _, _)
Reduce(a, st, j) ==
    IF j > Len(a) THEN (IF st = "null" THEN "denied" ELSE st)
    ELSE IF StepThrows(a[j]) THEN "throws"
    ELSE Reduce(a, StepStatus(st, a[j]), j + 1)

\* the arrays that hold the entries of a in another order
Reorderings(a) ==
    {[j \in 1..Len(a) |-> a[f[j]]] : f \in Permutations(1..Len(a))}

----------------------------------------------------------------------------
(* Claims about calls that are given the same array (SpecTwoCalls) *)

\* the property of the context that storeConsents writes into field f
ContextProperty(f) == IF f = "geoIP" THEN "ipAddress" ELSE f

\* field f of the transmitted entry comes from the entry as the caller built
\* it or from the context of the call
FromEntryOrContext(sent, built, ctx, f) ==
    f \in DOMAIN sent =>
        \/ f \in DOMAIN built /\ sent[f] = built[f]
        \/ ContextProperty(f) \in DOMAIN ctx /\ sent[f] = ctx[ContextProperty(f)]

\* C29: a storeConsents call issued after an earlier storeConsents call on
\* the same entry objects has settled transmits, in every entry, only a
\* subjectId, isExternalSubject and geoIP that the entry had when the caller
\* built it or that the call's own context supplies.
C29_NoContextCarriedOver ==
    [][\A c, d \in Callers :
          (/\ c # d
           /\ op[d] = "DPCM.storeConsents"
           /\ pc[d] \in {"resolved", "rejected"}
           /\ TwoStoreConsentsCall(c))
          => \A j \in 1..Len(items) :
                \A f \in {"subjectId", "isExternalSubject", "geoIP"} :
                    FromEntryOrContext(request'[c].body[j].value.o, items[j],
                                       context[c], f)]_vars

\* C30: for every array body assess resolves with status "approved",
\* "consent" or "denied" and the array, also when entries have no result
\* or a non-approved result[0] without reason: it neither rejects nor
\* reports "error".
C30_ResolvesOnEveryArray ==
    SettledOnArray =>
        /\ pc = "resolved"
        /\ result.status \in {"approved", "consent", "denied"}
        /\ result.assessment = assessment.array

====
